---- MODULE Spec2Model ----
(***************************************************************************)
(* Mouse Juggler (src/mouse_juggler.py): the trajectory generator, the     *)
(* motion scheduler human_move, the session loop movement_loop, the        *)
(* keyboard listener and the control panel MouseJugglerApp.                *)
(*                                                                         *)
(* Units.  Screen coordinates are integer pixels.  Inside the curve math   *)
(* a coordinate is an integer number of tenths of a pixel (the 0.3 / 0.7   *)
(* control-point weights are exact in tenths).  Lengths are thousandths of *)
(* a pixel, speeds thousandths of a pixel per second, times milliseconds;  *)
(* a per-step delay is the exact fraction num/den of a millisecond.        *)
(***************************************************************************)
EXTENDS Integers, Sequences, FiniteSets, TLC

(***************************************************************************)
(* Program constants.                                                      *)
(***************************************************************************)
RefDist       == 500    \* distance / 500                       (line 108)
JitterMin     == 5      \* random.randint(5, 15)                (line 111)
JitterMax     == 15
SliceMs       == 50     \* 0.05 s scheduler slice               (lines 182-189)
MinSleepMs    == 1      \* max(0.001, pause)                    (line 193)
PauseSliceMs  == 1000   \* time.sleep(1)                        (lines 253, 277, 286)
MicroPauseMs  == 2000   \* total_pause > 2                      (line 246)
MicroMin      == 1      \* random.randint(1, 10)                (lines 261-262)
MicroMax      == 10
MicroStepsMin == 10     \* micro_steps = (10, 25)               (line 267)
MicroStepsMax == 25
MicroVelMin   == 50     \* micro_vel = (50, 150)                (line 268)
MicroVelMax   == 150
DefaultPauseMs == 10    \* pause = 0.01                         (line 179)

(***************************************************************************)
(* Bounds of the model.                                                    *)
(***************************************************************************)
EaseGrid    == 100   \* the eased curve parameter is kept to 1/EaseGrid
JitterSpan  == 0     \* jitter values enumerated: JitterMin .. JitterMin + JitterSpan
MicroSpan   == 1     \* micro displacements enumerated: MicroMin .. MicroMin + MicroSpan
MaxListeners == 2    \* keyboard listeners alive, or their callbacks pending, at once
MaxSide     == 4     \* screens of 1 .. MaxSide pixels a side, for the destinations alone
MaxDisp     == 2     \* displacement samples 1 .. MaxDisp, for the destinations alone
MaxCoord    == 2     \* end points in 0 .. MaxCoord, for the trajectory alone
MaxSteps    == 3     \* step counts 2 .. MaxSteps, for the trajectory alone
MaxLen      == 4     \* sequences of up to MaxLen items, for pairwise alone
MaxReach    == 100   \* travels up to MaxReach pixels have their curve built, for the step count alone
MaxDen      == 8     \* easing inputs a / d with d in 1 .. MaxDen, for the easing functions alone

(***************************************************************************)
(* Arithmetic helpers.                                                     *)
(***************************************************************************)
Min2(a, b) == IF a <= b THEN a ELSE b

Max2(a, b) == IF a >= b THEN a ELSE b

\* int(x) of Python / astype(int) of numpy for the fraction a / b, b > 0:
\* truncation toward zero.
TruncDiv(a, b) == IF a >= 0 THEN a \div b ELSE -((-a) \div b)

RECURSIVE SqrtSearch(_, _, _)
SqrtSearch(n, lo, hi) ==
    IF lo >= hi THEN lo
    ELSE LET mid == (lo + hi + 1) \div 2
         IN  IF mid * mid <= n THEN SqrtSearch(n, mid, hi)
                               ELSE SqrtSearch(n, lo, mid - 1)

\* floor(sqrt(n)), n < 2^31
ISqrt(n) == SqrtSearch(n, 0, Min2(n, 46340))

\* np.linalg.norm of an integer pixel vector, in thousandths of a pixel
Norm(vx, vy) == ISqrt((vx * vx + vy * vy) * 1000000)

RECURSIVE SumSeq(_)
SumSeq(s) == IF s = <<>> THEN 0 ELSE Head(s) + SumSeq(Tail(s))

(***************************************************************************)
(* Utilities (lines 29-51).                                                *)
(***************************************************************************)
\* The loop of lines 32-34: prev is the item before the items left in it.
RECURSIVE PairwiseLoop(_, _)
PairwiseLoop(prev, it) ==
    IF it = << >> THEN << >>
    ELSE << << prev, Head(it) >> >> \o PairwiseLoop(Head(it), Tail(it))

\* pairwise that never updates prev (line 34 forgotten).
pairwise_stale(s) ==
    IF s = << >> THEN << >> ELSE [k \in 1 .. Len(s) - 1 |-> << s[1], s[k + 1] >>]

\* pairwise(iterable): prev = next(it, None), then the loop over the rest
pairwise(s) == IF s = << >> THEN << >> ELSE PairwiseLoop(Head(s), Tail(s))

\* np.linspace(0, 1, n)[k] for k = 0 .. n-1, as the fraction <<num, den>>
linspace(n, k) == IF n <= 1 THEN <<0, 1>> ELSE <<k, n - 1>>

\* ease_in_out_cubic(tn / td), as a numerator over td^3
ease_in_out_cubic(tn, td) ==
    IF 2 * tn < td
    THEN 4 * tn * tn * tn
    ELSE LET p == 2 * tn - 2 * td
         IN  (p * p * p) \div 2 + td * td * td

\* ease_in_out_quartic without the shift "t = t - 1" of line 50.
ease_in_out_quartic_unshifted(tn, td) ==
    IF 2 * tn < td
    THEN 8 * tn * tn * tn * tn
    ELSE -8 * tn * tn * tn * tn + td * td * td * td

\* ease_in_out_quartic(tn / td), as a numerator over td^4
ease_in_out_quartic(tn, td) ==
    IF 2 * tn < td
    THEN 8 * tn * tn * tn * tn
    ELSE LET t == tn - td
         IN  -8 * t * t * t * t + td * td * td * td

(***************************************************************************)
(* Trajectory generator (lines 53-98).                                     *)
(***************************************************************************)
\* The eased parameter of curve point k of num_points, in 1/EaseGrid.
EasedParam(num_points, k) ==
    LET t  == linspace(num_points, k)
        d4 == t[2] * t[2] * t[2] * t[2]
    IN  (ease_in_out_quartic(t[1], t[2]) * EaseGrid) \div d4

\* One coordinate of the cubic Bezier formula at parameter e / EaseGrid, the
\* four control values in tenths of a pixel; the result is in
\* 1 / (10 * EaseGrid^3) of a pixel.
BezierCoord(e, a0, a1, a2, a3) ==
    LET u == EaseGrid - e
    IN  u * u * u * a0 + 3 * u * u * e * a1 + 3 * u * e * e * a2 + e * e * e * a3

\* cubic_bezier_curve that leaves out the last parameter value (np.linspace
\* with endpoint=False and one point fewer).
cubic_bezier_curve_short(p0, p1, p2, p3, num_points, noise) ==
    [k \in 1 .. num_points - 1 |->
        LET e  == EasedParam(num_points, k - 1)
            g3 == EaseGrid * EaseGrid * EaseGrid
        IN  << TruncDiv(BezierCoord(e, p0[1], p1[1], p2[1], p3[1]) + noise[k][1] * g3,
                        10 * g3),
               TruncDiv(BezierCoord(e, p0[2], p1[2], p2[2], p3[2]) + noise[k][2] * g3,
                        10 * g3) >>]

\* cubic_bezier_curve: noise[k] is the human_noise sample (tenths of a pixel,
\* one per coordinate) added to point k; astype(int) truncates toward zero.
cubic_bezier_curve(p0, p1, p2, p3, num_points, noise) ==
    [k \in 1 .. num_points |->
        LET e  == EasedParam(num_points, k - 1)
            g3 == EaseGrid * EaseGrid * EaseGrid
        IN  << TruncDiv(BezierCoord(e, p0[1], p1[1], p2[1], p3[1]) + noise[k][1] * g3,
                        10 * g3),
               TruncDiv(BezierCoord(e, p0[2], p1[2], p2[2], p3[2]) + noise[k][2] * g3,
                        10 * g3) >>]

\* natural_trajectory without the test of line 82: the curve is always built.
natural_trajectory_unguarded(origin, destination, steps, c1, c2, noise) ==
    LET vx == destination[1] - origin[1]
        vy == destination[2] - origin[2]
    IN  cubic_bezier_curve(
            << 10 * origin[1], 10 * origin[2] >>,
            << 10 * origin[1] + 3 * vx - c1 * vy, 10 * origin[2] + 3 * vy + c1 * vx >>,
            << 10 * origin[1] + 7 * vx - c2 * vy, 10 * origin[2] + 7 * vy + c2 * vx >>,
            << 10 * destination[1], 10 * destination[2] >>,
            steps, noise)

\* natural_trajectory: c1, c2 are the sampled curvatures divided by dist, in
\* tenths (uniform(-dist/3, dist/3) / dist lies in [-1/3, 1/3]).
natural_trajectory(origin, destination, steps, c1, c2, noise) ==
    LET vx == destination[1] - origin[1]
        vy == destination[2] - origin[2]
    IN  IF vx * vx + vy * vy < 1
        THEN << origin >>
        ELSE cubic_bezier_curve(
                 << 10 * origin[1], 10 * origin[2] >>,
                 << 10 * origin[1] + 3 * vx - c1 * vy, 10 * origin[2] + 3 * vy + c1 * vx >>,
                 << 10 * origin[1] + 7 * vx - c2 * vy, 10 * origin[2] + 7 * vy + c2 * vx >>,
                 << 10 * destination[1], 10 * destination[2] >>,
                 steps, noise)

(***************************************************************************)
(* human_move, the set-up part (lines 102-156).                            *)
(***************************************************************************)
\* ceil(sqrt(n))
CeilSqrt(n) == LET r == ISqrt(n) IN IF r * r = n THEN r ELSE r + 1

\* adaptive_steps with the jitter of line 111 left out.
adaptive_steps_unjittered(origin, destination, steps_range, jitter) ==
    LET vx == destination[1] - origin[1]
        vy == destination[2] - origin[2]
        s  == vx * vx + vy * vy
        d  == steps_range[2] - steps_range[1]
    IN  IF s >= RefDist * RefDist
        THEN steps_range[1] + d
        ELSE steps_range[1] + ISqrt(d * d * s) \div RefDist

\* adaptive_steps with the min(1.0, ...) of line 108 left out.
adaptive_steps_uncapped(origin, destination, steps_range, jitter) ==
    LET vx == destination[1] - origin[1]
        vy == destination[2] - origin[2]
        d  == steps_range[2] - steps_range[1]
    IN  steps_range[1] + ISqrt(d * d * (vx * vx + vy * vy)) \div RefDist + jitter

\* int(min_steps + (max_steps - min_steps) * min(1.0, distance / 500)) + jitter
\* (line 108-111); int() truncates toward zero.
adaptive_steps(origin, destination, steps_range, jitter) ==
    LET vx == destination[1] - origin[1]
        vy == destination[2] - origin[2]
        s  == vx * vx + vy * vy
        mn == steps_range[1]
        d  == steps_range[2] - steps_range[1]
        a  == d * d * s
        fl == IF d >= 0 THEN mn + ISqrt(a) \div RefDist
                        ELSE mn - (CeilSqrt(a) + RefDist - 1) \div RefDist
        cl == IF d >= 0 THEN mn + (CeilSqrt(a) + RefDist - 1) \div RefDist
                        ELSE mn - ISqrt(a) \div RefDist
    IN  IF s >= RefDist * RefDist
        THEN mn + d + jitter
        ELSE (IF fl >= 0 THEN fl ELSE cl) + jitter

\* total_distance (lines 130-136): the summed length of the segments of
\* point_list, in thousandths of a pixel.
total_distance(point_list) ==
    LET pr == pairwise(point_list)
    IN  SumSeq([k \in 1 .. Len(pr) |->
                   Norm(pr[k][2][1] - pr[k][1][1], pr[k][2][2] - pr[k][1][2])])

\* speed (line 139): base is the sample of uniform(*speed_range) in px/s, fac
\* the sample of uniform(0.9, 1.1) in thousandths; thousandths of px/s.
speed(base, fac) == base * fac

\* total_time (line 142) in ms: total_distance / max(speed, 0.001)
total_time(dist, spd) == (dist * 1000) \div Max2(spd, 1)

\* time_diffs with the normalisation of line 152 by the number of delays
\* instead of their sum.
time_diffs_by_count(n, tt) ==
    IF n > 1
    THEN LET eased == [k \in 1 .. n |->
                          ease_in_out_cubic(linspace(n, k - 1)[1], linspace(n, k - 1)[2])]
         IN  [num |-> [k \in 1 .. n - 1 |-> (eased[k + 1] - eased[k]) * tt],
              den |-> n - 1]
    ELSE [num |-> << 0 >>, den |-> 1]

\* time_diffs with one delay per point: np.diff left out at line 150.
time_diffs_per_point(n, tt) ==
    IF n > 1
    THEN [num |-> [k \in 1 .. n |->
                      ease_in_out_cubic(linspace(n, k - 1)[1], linspace(n, k - 1)[2]) * tt],
          den |-> SumSeq([k \in 1 .. n |->
                      ease_in_out_cubic(linspace(n, k - 1)[1], linspace(n, k - 1)[2])])]
    ELSE [num |-> << 0 >>, den |-> 1]

\* time_diffs (lines 145-156): the delays num[k] / den ms, k = 1 .. Len(num).
time_diffs(n, tt) ==
    IF n > 1
    THEN LET eased == [k \in 1 .. n |->
                          ease_in_out_cubic(linspace(n, k - 1)[1], linspace(n, k - 1)[2])]
             diff  == [k \in 1 .. n - 1 |-> eased[k + 1] - eased[k]]
             sum   == SumSeq(diff)
         IN  IF sum > 0
             THEN [num |-> [k \in 1 .. n - 1 |-> diff[k] * tt], den |-> sum]
             ELSE [num |-> [k \in 1 .. n - 1 |-> tt], den |-> n - 1]
    ELSE [num |-> << 0 >>, den |-> 1]

\* The np.random.normal sample added to point k of n under the draw d (one
\* sample for the first point, one for the last, one for the others).
NoiseAt(d, k, n) ==
    IF k = 1 THEN d.first ELSE IF k = n THEN d.last ELSE d.mid

\* The state of one human_move call once its set-up is done: the trajectory,
\* the delays and the position i (0-based, as enumerate) of the execution loop.
HumanMoveSetup(mode, origin, destination, speed_range, steps_range, jitter, d) ==
    LET n   == adaptive_steps(origin, destination, steps_range, jitter)
        pts == natural_trajectory(origin, destination, n, d.cv[1], d.cv[2],
                                  [k \in 1 .. n |-> NoiseAt(d, k, n)])
        tt  == total_time(total_distance(pts), speed(speed_range[d.u], d.fac))
        td  == time_diffs(Len(pts), tt)
    IN  [mode |-> mode, origin |-> origin, destination |-> destination,
         point_list |-> pts, total_time |-> tt, num |-> td.num, den |-> td.den,
         i |-> 0, segments |-> 0, remaining |-> 0]

\* No function has been applied on its own.
NoCall == [kind |-> "none"]

NoFrame ==
    [mode |-> "none", origin |-> << 0, 0 >>, destination |-> << 0, 0 >>,
     point_list |-> << >>, total_time |-> 0, num |-> << >>, den |-> 1,
     i |-> 0, segments |-> 0, remaining |-> 0]

(***************************************************************************)
(* State.                                                                  *)
(***************************************************************************)
VARIABLES
    KEYBOARD_AVAILABLE, \* module flag set by the pynput import (lines 294-299)
    scr,                \* pag.size(): << width, height >>
    pos,                \* the pointer: pag.position()
    stop_event,         \* self.stop_event / stop_evt: TRUE when set
    v,                  \* the Tk variables v_dx_min .. v_vel_max, as ranges
    status,             \* self.status
    btn_text,           \* the text of the round button
    listening,          \* keyboard listener threads waiting for a key event
    pressed,            \* listener threads in _on_press, past the test of line 306
    afterq,             \* key_stop_handler calls scheduled with after(100, ...)
    wpc,                \* where the worker thread is ("none": no thread yet)
    cfg,                \* the cfg argument of the worker's movement_loop
    hm,                 \* the worker's current human_move call
    pz,                 \* the worker's current pause (movement_loop locals)
    entry,              \* history: the signal at the worker's first loop test
    didWork,            \* history: the worker called human_move, moved or slept
    hmh,                \* history of the current human_move call (waited: the
                        \* time slept since its last pointer move, in 1/den ms;
                        \* outcome: what that move did; afterSet: its pointer
                        \* moves issued with the signal set)
    slp,                \* history: the sleep in progress
    startIgnored,       \* history: the last control-panel call was a start that
                        \* found a live worker
    orphans,            \* history: worker threads still alive when start
                        \* replaced self.worker with a new thread
    GUI_AVAILABLE,      \* module flag set by the tkinter import (lines 321-333)
    tk,                 \* TRUE when the module name tk is bound (line 327)
    lpc,                \* where the main thread is, from the load of the module
    pin,                \* the arguments of a function applied on its own
    pout                \* its result

vars == << KEYBOARD_AVAILABLE, scr, pos, stop_event, v, status, btn_text, listening,
           pressed, afterq, wpc, cfg, hm, pz, entry, didWork, hmh, slp, startIgnored,
           orphans, GUI_AVAILABLE, tk, lpc, pin, pout >>

\* What no action of the running program changes.
fixed == << KEYBOARD_AVAILABLE, scr, pin, pout, GUI_AVAILABLE, tk, lpc >>

workerVars == << wpc, cfg, hm, pz, pos, entry, didWork, hmh, slp >>

(***************************************************************************)
(* Inputs enumerated: configurations, screens and random draws.            *)
(***************************************************************************)
\* CFG_DEFAULT / the Tk variables (lines 205-211, 364-373), on the scale of
\* the model's screen; pause in ms.
CfgInit ==
    [dx |-> << 1, 2 >>, dy |-> << 1, 1 >>, pause |-> << 500, 2500 >>,
     steps |-> << 1, 1 >>, vel |-> << 10, 10 >>]

\* Values the configuration window accepts for the X displacement range
\* (lines 536-537): the second has low > high.
DxChoices == { << 1, 2 >>, << 2, 1 >> }

ScreenChoices == { << 4, 3 >> }

PosChoices == { << 2, 1 >> }

\* uniform(lo, hi): the two ends of the range
Uniform(range) == { range[1], range[2] }

\* One joint draw of the random samples of a human_move call: cv the two
\* curvatures over dist (tenths), the np.random.normal samples (tenths of a
\* pixel) of the first, the last and the other points, u which end of the
\* speed range uniform(*speed_range) gives and fac the uniform(0.9, 1.1)
\* sample in thousandths.
Draws ==
    { [cv |-> << 0, 0 >>, first |-> << 0, 0 >>, mid |-> << 0, 0 >>,
       last |-> << 0, 0 >>, u |-> 1, fac |-> 900],
      [cv |-> << -3, 3 >>, first |-> << -6, 0 >>, mid |-> << 0, 0 >>,
       last |-> << -6, 0 >>, u |-> 2, fac |-> 1100] }

\* uniform(0.3, 0.7), in thousandths
SplitDraws == { 500 }

JitterDraws == JitterMin .. Min2(JitterMax, JitterMin + JitterSpan)

MicroDraws == MicroMin .. Min2(MicroMax, MicroMin + MicroSpan)

Signs == { -1, 1 }

\* What a pag.moveTo call can do: succeed, raise one of the exception types
\* the except clauses name (TypeError, IndexError, ValueError), or raise any
\* other exception (pyautogui's own FailSafeException among them).
MoveOutcomes == { "ok", "caught", "uncaught" }

(***************************************************************************)
(* movement_loop: destinations (lines 220-233, 260-264).                   *)
(***************************************************************************)
\* dx / dy of lines 222-228: n is the randint sample, sign the random.choice;
\* kind "normal" is the 70% branch, "small" factor 0.3, "large" factor 2.0.
Displacement(kind, n, sign) ==
    CASE kind = "normal" -> n * sign
      [] kind = "small"  -> TruncDiv(3 * n, 10) * sign
      [] kind = "large"  -> (2 * n) * sign

\* ClampDest with the upper margin forgotten: min(w - 1, ...), the last pixel.
ClampDestNoMargin(w, h, x0, y0, dx, dy) ==
    << Max2(1, Min2(w - 1, x0 + dx)), Max2(1, Min2(h - 1, y0 + dy)) >>

\* max(1, min(w - 2, x0 + dx)), max(1, min(h - 2, y0 + dy))
ClampDest(w, h, x0, y0, dx, dy) ==
    << Max2(1, Min2(w - 2, x0 + dx)), Max2(1, Min2(h - 2, y0 + dy)) >>

(***************************************************************************)
(* The worker thread: movement_loop and the execution part of human_move.  *)
(***************************************************************************)
HmPcs    == { "hm_check", "hm_move", "hm_slice_check", "hm_slice_sleep",
              "hm_rem_sleep", "hm_short_sleep", "hm_final", "hm_final_move",
              "hm_return" }
HmSleepPcs == { "hm_slice_sleep", "hm_rem_sleep", "hm_short_sleep" }
SleepPcs == HmSleepPcs \cup { "p_sleep", "p_remsleep" }
DeadPcs  == { "none", "stopped", "crashed" }

\* self.worker.is_alive()
WorkerAlive == wpc \notin DeadPcs

NoSleep == [kind |-> "none", num |-> 0, den |-> 1]

NoHistory ==
    [moves |-> 0, last |-> << >>, setSeen |-> FALSE, cancelledInWait |-> FALSE,
     ended |-> "none", waited |-> 0, outcome |-> "none", afterSet |-> 0]

\* What no step of the worker thread changes.
PanelFrame ==
    UNCHANGED << fixed, stop_event, v, status, btn_text, listening, pressed,
                 afterq, cfg, startIgnored >>

WorkerFrame == PanelFrame /\ UNCHANGED orphans

\* for i, point in enumerate(point_list[:-1]): the loop goes on with index i
\* while i <= len(point_list) - 2, then falls through to line 196.
LoopPc(f, i) == IF i <= Len(f.point_list) - 2 THEN "hm_check" ELSE "hm_final"

\* The delay after the move of index i (lines 176-179), in 1/den ms.
StepPause(f) ==
    IF f.i < Len(f.num) THEN f.num[f.i + 1] ELSE DefaultPauseMs * f.den

\* The pointer after a moveTo the device accepts: the requested point, kept on
\* the screen.
Pointer(x, y) ==
    << Max2(0, Min2(scr[1] - 1, x)), Max2(0, Min2(scr[2] - 1, y)) >>

\* PauseFrame without the slicing loop: the whole wait as one sleep.
PauseFrameUnsliced(phase, total, first, ms, slept) ==
    [phase |-> phase, total |-> total, first |-> first, k |-> 0, rem |-> ms,
     slept |-> slept]

\* PauseFrame with the sleep of the remainder forgotten.
PauseFrameNoRemainder(phase, total, first, ms, slept) ==
    [phase |-> phase, total |-> total, first |-> first,
     k |-> ms \div PauseSliceMs, rem |-> 0, slept |-> slept]

\* The pause locals for a wait of ms milliseconds cut in one-second slices:
\* range(int(t)) and t % 1 (lines 250-256, 273-280, 283-289).  slept is
\* history: the time of the sleeps this pause has started so far, in ms.
PauseFrame(phase, total, first, ms, slept) ==
    [phase |-> phase, total |-> total, first |-> first,
     k |-> ms \div PauseSliceMs, rem |-> ms % PauseSliceMs, slept |-> slept]

NoPause ==
    [phase |-> "none", total |-> 0, first |-> 0, k |-> 0, rem |-> 0, slept |-> 0]

PausePc(f) == IF f.k > 0 THEN "p_check" ELSE "p_remcheck"

\* is_set reading a flag nobody sets: movement_loop never sees the signal.
is_set_never(evt) == FALSE

\* stop_evt.is_set() as movement_loop reads it (lines 216, 239, 251, 255, 259,
\* 275, 279, 284, 288)
is_set(evt) == evt

\* LoopContinues as "while True": the signal is not looked at.
LoopContinuesAlways(signal) == TRUE

\* Line 216: while not stop_evt.is_set()
LoopContinues(signal) == ~signal

\* FinalMoveDue without the test of the signal.
FinalMoveAlways(signal, n) == n > 0

\* Line 196: not (stop_evt and stop_evt.is_set()) and len(point_list) > 0
FinalMoveDue(signal, n) == ~signal /\ n > 0

\* Line 216, and for a signal that is clear lines 217-236 up to the start of
\* human_move's execution loop.  random.randint raises ValueError on an empty
\* range, which nothing in movement_loop catches.
MlLoop ==
    /\ wpc = "ml_loop"
    /\ entry' = IF entry = "na" THEN (IF stop_event THEN "set" ELSE "clear") ELSE entry
    /\ IF ~LoopContinues(is_set(stop_event))
       THEN /\ wpc' = "stopped"
            /\ UNCHANGED << hm, hmh, didWork >>
       ELSE IF cfg.dx[1] > cfg.dx[2] \/ cfg.dy[1] > cfg.dy[2]
       THEN /\ wpc' = "crashed"
            /\ UNCHANGED << hm, hmh, didWork >>
       ELSE \E kind \in { "normal", "small", "large" },
               nx \in cfg.dx[1] .. cfg.dx[2], ny \in cfg.dy[1] .. cfg.dy[2],
               sx \in Signs, sy \in Signs, j \in JitterDraws, d \in Draws :
              LET dest == ClampDest(scr[1], scr[2], pos[1], pos[2],
                                    Displacement(kind, nx, sx),
                                    Displacement(kind, ny, sy))
                  f    == HumanMoveSetup("travel", pos, dest, cfg.vel, cfg.steps,
                                         j, d)
              IN  /\ hm' = f
                  /\ wpc' = LoopPc(f, 0)
                  /\ hmh' = NoHistory
                  /\ didWork' = TRUE
    /\ UNCHANGED << pz, pos, slp >>
    /\ WorkerFrame

\* Line 161: the test of the signal at the top of the execution loop.
HmCheck ==
    /\ wpc = "hm_check"
    /\ wpc' = IF stop_event THEN "hm_final" ELSE "hm_move"
    /\ UNCHANGED << hm, pz, pos, entry, didWork, hmh, slp >>
    /\ WorkerFrame

\* Lines 164-193: the move of index i and the start of the wait after it.
HmMove ==
    /\ wpc = "hm_move"
    /\ \E outcome \in MoveOutcomes :
         LET pt == hm.point_list[hm.i + 1]
             p  == StepPause(hm)
         IN  /\ pos' = IF outcome = "ok" THEN Pointer(pt[1], pt[2]) ELSE pos
             /\ hmh' = [hmh EXCEPT !.moves = @ + 1, !.last = pt, !.waited = 0,
                                   !.outcome = outcome,
                                   !.afterSet = IF stop_event THEN @ + 1 ELSE @,
                                   !.ended = IF outcome = "uncaught" THEN "raised" ELSE @]
             /\ didWork' = TRUE
             /\ CASE outcome = "uncaught" ->
                       /\ wpc' = "crashed"
                       /\ UNCHANGED << hm, slp >>
                  [] outcome = "caught" ->
                       /\ wpc' = LoopPc(hm, hm.i + 1)
                       /\ hm' = [hm EXCEPT !.i = @ + 1]
                       /\ UNCHANGED slp
                  [] outcome = "ok" /\ p > SliceMs * hm.den ->
                       /\ wpc' = "hm_slice_check"
                       /\ hm' = [hm EXCEPT !.segments = p \div (SliceMs * hm.den),
                                           !.remaining = p % (SliceMs * hm.den)]
                       /\ UNCHANGED slp
                  [] outcome = "ok" /\ p <= SliceMs * hm.den ->
                       /\ wpc' = "hm_short_sleep"
                       /\ slp' = [kind |-> "short", num |-> Max2(MinSleepMs * hm.den, p),
                                  den |-> hm.den]
                       /\ UNCHANGED hm
    /\ UNCHANGED << pz, entry >>
    /\ WorkerFrame

\* Lines 185-187: the test before a 0.05 s slice; a set signal returns from
\* human_move.
HmSliceCheck ==
    /\ wpc = "hm_slice_check"
    /\ IF stop_event
       THEN /\ wpc' = "hm_return"
            /\ UNCHANGED << slp, didWork >>
       ELSE /\ wpc' = "hm_slice_sleep"
            /\ slp' = [kind |-> "slice", num |-> SliceMs * hm.den, den |-> hm.den]
            /\ didWork' = TRUE
    /\ UNCHANGED << hm, pz, pos, entry, hmh >>
    /\ WorkerFrame

\* The end of a 0.05 s slice: the next slice's test, or after the last slice
\* lines 189-191, the sleep of the remainder, or the next point.
HmSliceWake ==
    /\ wpc = "hm_slice_sleep"
    /\ IF hm.segments > 1
       THEN /\ wpc' = "hm_slice_check"
            /\ hm' = [hm EXCEPT !.segments = @ - 1]
            /\ slp' = NoSleep
       ELSE IF hm.remaining > 0
       THEN /\ wpc' = "hm_rem_sleep"
            /\ hm' = [hm EXCEPT !.segments = 0]
            /\ slp' = [kind |-> "rem", num |-> hm.remaining, den |-> hm.den]
       ELSE /\ wpc' = LoopPc(hm, hm.i + 1)
            /\ hm' = [hm EXCEPT !.segments = 0, !.i = @ + 1]
            /\ slp' = NoSleep
    /\ hmh' = [hmh EXCEPT !.waited = @ + SliceMs * hm.den]
    /\ UNCHANGED << pz, pos, entry, didWork >>
    /\ WorkerFrame

\* The end of the sleep of line 191 or line 193: on to the next point.
HmSleepWake ==
    /\ wpc \in { "hm_rem_sleep", "hm_short_sleep" }
    /\ wpc' = LoopPc(hm, hm.i + 1)
    /\ hm' = [hm EXCEPT !.i = @ + 1, !.remaining = 0]
    /\ slp' = NoSleep
    /\ hmh' = [hmh EXCEPT !.waited = @ + slp.num]
    /\ UNCHANGED << pz, pos, entry, didWork >>
    /\ WorkerFrame

\* Line 196: the test before the final move.
HmFinal ==
    /\ wpc = "hm_final"
    /\ wpc' = IF FinalMoveDue(stop_event, Len(hm.point_list)) THEN "hm_final_move"
                                                              ELSE "hm_return"
    /\ UNCHANGED << hm, pz, pos, entry, didWork, hmh, slp >>
    /\ WorkerFrame

\* Lines 197-202: the move to the destination.
HmFinalMove ==
    /\ wpc = "hm_final_move"
    /\ \E outcome \in MoveOutcomes :
         /\ pos' = IF outcome = "ok"
                   THEN Pointer(hm.destination[1], hm.destination[2]) ELSE pos
         /\ hmh' = [hmh EXCEPT !.moves = @ + 1, !.last = hm.destination,
                               !.outcome = outcome,
                               !.afterSet = IF stop_event THEN @ + 1 ELSE @,
                               !.ended = IF outcome = "uncaught" THEN "raised" ELSE @]
         /\ wpc' = IF outcome = "uncaught" THEN "crashed" ELSE "hm_return"
    /\ didWork' = TRUE
    /\ UNCHANGED << hm, pz, entry, slp >>
    /\ WorkerFrame

\* human_move returns: to line 239 after a travel, to lines 273-274 after a
\* micro-movement.
HmReturn ==
    /\ wpc = "hm_return"
    /\ hm' = NoFrame
    /\ hmh' = NoHistory
    /\ IF hm.mode = "travel"
       THEN /\ wpc' = "ml_after_travel"
            /\ UNCHANGED pz
       ELSE LET f == PauseFrame("rest", pz.total, pz.first, pz.total - pz.first, pz.slept)
            IN  /\ pz' = f
                /\ wpc' = PausePc(f)
    /\ UNCHANGED << pos, entry, didWork, slp >>
    /\ WorkerFrame

\* Lines 239-250 / 283: the test after the travel, the pause drawn and its
\* first loop set up.  roll is random.random() < 0.3.
MlAfterTravel ==
    /\ wpc = "ml_after_travel"
    /\ IF is_set(stop_event)
       THEN /\ wpc' = "stopped"
            /\ UNCHANGED pz
       ELSE \E total \in Uniform(cfg.pause), roll \in BOOLEAN, split \in SplitDraws :
              LET first == (total * split) \div 1000
                  f == IF roll /\ total > MicroPauseMs
                       THEN PauseFrame("first", total, first, first, 0)
                       ELSE PauseFrame("plain", total, 0, total, 0)
              IN  /\ pz' = f
                  /\ wpc' = PausePc(f)
    /\ UNCHANGED << hm, pos, entry, didWork, hmh, slp >>
    /\ WorkerFrame

\* Lines 251-253 (275-277, 284-286): the test before a one-second slice.
PCheck ==
    /\ wpc = "p_check"
    /\ IF is_set(stop_event)
       THEN /\ wpc' = "p_remcheck"
            /\ UNCHANGED << slp, didWork, pz >>
       ELSE /\ wpc' = "p_sleep"
            /\ slp' = [kind |-> "pause", num |-> PauseSliceMs, den |-> 1]
            /\ pz' = [pz EXCEPT !.slept = @ + PauseSliceMs]
            /\ didWork' = TRUE
    /\ UNCHANGED << hm, pos, entry, hmh >>
    /\ WorkerFrame

\* The end of a one-second slice.
PSleepWake ==
    /\ wpc = "p_sleep"
    /\ pz' = [pz EXCEPT !.k = @ - 1]
    /\ wpc' = IF pz.k > 1 THEN "p_check" ELSE "p_remcheck"
    /\ slp' = NoSleep
    /\ UNCHANGED << hm, pos, entry, didWork, hmh >>
    /\ WorkerFrame

\* Where the worker goes when a pause loop and its remainder are done.
AfterPausePc(f) == IF f.phase = "first" THEN "ml_micro_check" ELSE "ml_loop"

\* The pause locals then: total_pause and first_part are read again only by
\* lines 259-273, after the first part.
AfterPause(f) == IF f.phase = "first" THEN f ELSE NoPause

\* Lines 255-256 (279-280, 288-289): the test before the remainder.
PRemCheck ==
    /\ wpc = "p_remcheck"
    /\ IF is_set(stop_event)
       THEN /\ wpc' = AfterPausePc(pz)
            /\ pz' = AfterPause(pz)
            /\ UNCHANGED << slp, didWork >>
       ELSE /\ wpc' = "p_remsleep"
            /\ slp' = [kind |-> "pause_rem", num |-> pz.rem, den |-> 1]
            /\ pz' = [pz EXCEPT !.slept = @ + pz.rem]
            /\ didWork' = TRUE
    /\ UNCHANGED << hm, pos, entry, hmh >>
    /\ WorkerFrame

\* The end of the remainder's sleep.
PRemWake ==
    /\ wpc = "p_remsleep"
    /\ wpc' = AfterPausePc(pz)
    /\ pz' = AfterPause(pz)
    /\ slp' = NoSleep
    /\ UNCHANGED << hm, pos, entry, didWork, hmh >>
    /\ WorkerFrame

\* Lines 259-270: the test before the micro-movement and, for a clear
\* signal, its destination and human_move up to the execution loop; for a
\* set signal lines 273-274.
MlMicroCheck ==
    /\ wpc = "ml_micro_check"
    /\ IF is_set(stop_event)
       THEN LET f == PauseFrame("rest", pz.total, pz.first, pz.total - pz.first, pz.slept)
            IN  /\ pz' = f
                /\ wpc' = PausePc(f)
                /\ UNCHANGED << hm, hmh, didWork >>
       ELSE \E nx \in MicroDraws, ny \in MicroDraws, sx \in Signs, sy \in Signs,
               j \in JitterDraws, d \in Draws :
              LET dest == ClampDest(scr[1], scr[2], pos[1], pos[2], nx * sx, ny * sy)
                  f    == HumanMoveSetup("micro", pos, dest,
                                         << MicroVelMin, MicroVelMax >>,
                                         << MicroStepsMin, MicroStepsMax >>,
                                         j, d)
              IN  /\ hm' = f
                  /\ wpc' = LoopPc(f, 0)
                  /\ hmh' = NoHistory
                  /\ didWork' = TRUE
                  /\ UNCHANGED pz
    /\ UNCHANGED << pos, entry, slp >>
    /\ WorkerFrame

(***************************************************************************)
(* The keyboard listener (lines 301-319).                                  *)
(***************************************************************************)
\* The history of the running human_move call when the signal is set now.
SignalHistory ==
    IF wpc \in HmPcs
    THEN [hmh EXCEPT !.setSeen = TRUE,
                     !.cancelledInWait = @ \/ (~stop_event /\ wpc \in HmSleepPcs)]
    ELSE hmh

\* start_keyboard_listener without the test of line 302: a listener is
\* created whether or not pynput was imported.
start_keyboard_listener_unchecked(n) == n + 1

\* start_keyboard_listener (lines 301-303, 317-319): None without pynput,
\* else one more listener thread; n is the number of threads listening.
start_keyboard_listener(n) == IF KEYBOARD_AVAILABLE THEN n + 1 ELSE n

\* _on_press, line 306: a listener gets a key event and tests the signal; a
\* set signal leaves only "return False", which ends the listener.
OnPressTest ==
    /\ listening > 0
    /\ listening' = listening - 1
    /\ pressed' = IF stop_event THEN pressed ELSE pressed + 1
    /\ UNCHANGED << fixed, stop_event, v, status, btn_text, afterq, startIgnored,
                    orphans, workerVars >>

\* _on_press, lines 307-315: the signal is set, key_stop_handler is
\* scheduled on the UI thread and the listener ends.
OnPressSet ==
    /\ pressed > 0
    /\ pressed' = pressed - 1
    /\ stop_event' = TRUE
    /\ hmh' = SignalHistory
    /\ afterq' = afterq + 1
    /\ UNCHANGED << fixed, v, status, btn_text, listening, startIgnored, orphans,
                    wpc, cfg, hm, pz, pos, entry, didWork, slp >>

(***************************************************************************)
(* The control panel MouseJugglerApp (lines 496-618).                      *)
(***************************************************************************)
\* _current_cfg returning CFG_DEFAULT whatever the Tk variables hold.
current_cfg_default == CfgInit

\* _current_cfg (lines 568-575)
current_cfg == v

\* AlreadyRunning with the guard of line 581 left out.
NeverRunning(pc) == FALSE

\* Line 581: self.worker and self.worker.is_alive()
AlreadyRunning(pc) == pc \notin DeadPcs

\* start (lines 580-599)
Start ==
    /\ startIgnored' = WorkerAlive
    /\ IF AlreadyRunning(wpc)
       THEN UNCHANGED << fixed, pos, stop_event, v, status, btn_text, listening,
                         pressed, afterq, wpc, cfg, hm, pz, entry, didWork, hmh, slp,
                         orphans >>
       ELSE /\ KEYBOARD_AVAILABLE => listening + pressed + afterq < MaxListeners
            /\ stop_event' = FALSE
            /\ listening' = start_keyboard_listener(listening)
            /\ wpc' = "ml_loop"
            /\ cfg' = current_cfg
            /\ hm' = NoFrame
            /\ pz' = NoPause
            /\ entry' = "na"
            /\ didWork' = FALSE
            /\ hmh' = NoHistory
            /\ slp' = NoSleep
            /\ orphans' = orphans + IF WorkerAlive THEN 1 ELSE 0
            /\ status' = "En movimiento..."
            /\ btn_text' = "Activo"
            /\ UNCHANGED << fixed, pos, v, pressed, afterq >>

\* stop (lines 601-607)
Stop ==
    /\ stop_event' = TRUE
    /\ hmh' = SignalHistory
    /\ status' = "Detenido"
    /\ btn_text' = "Iniciar"
    /\ startIgnored' = FALSE
    /\ UNCHANGED << fixed, v, listening, pressed, afterq, orphans,
                    wpc, cfg, hm, pz, pos, entry, didWork, slp >>

\* key_stop_handler (lines 613-618), run by the UI thread for an after() call
KeyStopHandler ==
    /\ afterq > 0
    /\ afterq' = afterq - 1
    /\ status' = "Detenido por teclado"
    /\ btn_text' = "Iniciar"
    /\ startIgnored' = FALSE
    /\ UNCHANGED << fixed, stop_event, v, listening, pressed, orphans, workerVars >>

\* The configuration window (lines 514-565): the spinboxes write the Tk
\* variables; nothing compares a minimum with its maximum.
ConfigWindow ==
    /\ \E r \in DxChoices : r # v.dx /\ v' = [v EXCEPT !.dx = r]
    /\ startIgnored' = FALSE
    /\ UNCHANGED << fixed, stop_event, status, btn_text, listening, pressed, afterq,
                    orphans, workerVars >>

\* The presets of the options menu on the scale of the model (lines 454-492):
\* the default range of each setting and one other.
SpeedChoices == { << 10, 10 >>, << 20, 20 >> }

PauseChoices == { << 500, 2500 >>, << 500, 500 >> }

StepsChoices == { << 1, 1 >>, << 1, 2 >> }

\* The frame of a quick setting: the Tk variables and the status change.
SettingFrame ==
    /\ startIgnored' = FALSE
    /\ UNCHANGED << fixed, stop_event, btn_text, listening, pressed, afterq,
                    orphans, workerVars >>

\* set_speed (lines 496-500)
SetSpeed ==
    /\ \E r \in SpeedChoices : r # v.vel /\ v' = [v EXCEPT !.vel = r]
    /\ status' = "Velocidad actualizada"
    /\ SettingFrame

\* set_pause (lines 502-506)
SetPause ==
    /\ \E r \in PauseChoices : r # v.pause /\ v' = [v EXCEPT !.pause = r]
    /\ status' = "Pausas actualizadas"
    /\ SettingFrame

\* set_organicity (lines 508-512)
SetOrganicity ==
    /\ \E r \in StepsChoices : r # v.steps /\ v' = [v EXCEPT !.steps = r]
    /\ status' = "Organicidad actualizada"
    /\ SettingFrame

(***************************************************************************)
(* The specification of the running program.                               *)
(***************************************************************************)
\* The control panel and its threads before any run.
NoSession ==
    /\ stop_event = FALSE
    /\ v = CfgInit
    /\ status = "Listo para iniciar"
    /\ btn_text = "Iniciar"
    /\ listening = 0
    /\ pressed = 0
    /\ afterq = 0
    /\ wpc = "none"
    /\ cfg = CfgInit
    /\ hm = NoFrame
    /\ pz = NoPause
    /\ entry = "na"
    /\ didWork = FALSE
    /\ hmh = NoHistory
    /\ slp = NoSleep
    /\ startIgnored = FALSE
    /\ orphans = 0

\* The program before anything runs: the module loaded with tkinter, the
\* state __init__ builds (lines 364-383) and mainloop entered (lines 640-641),
\* no worker thread yet.
Constructed ==
    /\ GUI_AVAILABLE = TRUE
    /\ tk = TRUE
    /\ lpc = "mainloop"
    /\ NoSession

Init ==
    /\ KEYBOARD_AVAILABLE \in BOOLEAN
    /\ scr \in ScreenChoices
    /\ pos \in PosChoices
    /\ pin = NoCall
    /\ pout = NoCall
    /\ Constructed

Next ==
    \/ MlLoop
    \/ HmCheck
    \/ HmMove
    \/ HmSliceCheck
    \/ HmSliceWake
    \/ HmSleepWake
    \/ HmFinal
    \/ HmFinalMove
    \/ HmReturn
    \/ MlAfterTravel
    \/ PCheck
    \/ PSleepWake
    \/ PRemCheck
    \/ PRemWake
    \/ MlMicroCheck
    \/ Start
    \/ Stop
    \/ KeyStopHandler
    \/ ConfigWindow
    \/ OnPressTest
    \/ OnPressSet

Spec == Init /\ [][Next]_vars

\* The steps of the worker thread.
Worker ==
    \/ MlLoop
    \/ HmCheck
    \/ HmMove
    \/ HmSliceCheck
    \/ HmSliceWake
    \/ HmSleepWake
    \/ HmFinal
    \/ HmFinalMove
    \/ HmReturn
    \/ MlAfterTravel
    \/ PCheck
    \/ PSleepWake
    \/ PRemCheck
    \/ PRemWake
    \/ MlMicroCheck

\* The steps the worker thread takes once stop_evt.is_set() is true.
CancelledWorker == is_set(stop_event) /\ Worker

\* The worker thread keeps being scheduled: its sleeps end and its pointer
\* moves return or raise, so a step it can take is eventually taken. Only the
\* steps after the signal is set are needed for cancellation.
SpecLive == Spec /\ WF_vars(CancelledWorker)

\* The running program without pynput, its settings changed from the
\* options menu: start and the three quick settings, in any order with the
\* worker's steps.  The signal is never set here: a session ends by a failed
\* pointer move, and the next start launches another.
InitCfg ==
    /\ KEYBOARD_AVAILABLE = FALSE
    /\ scr \in ScreenChoices
    /\ pos \in PosChoices
    /\ pin = NoCall
    /\ pout = NoCall
    /\ Constructed

NextCfg ==
    \/ Worker
    \/ Start
    \/ SetSpeed
    \/ SetPause
    \/ SetOrganicity

SpecCfg == InitCfg /\ [][NextCfg]_vars

(***************************************************************************)
(* The program from the load of the module: the tkinter import, the class  *)
(* statement, main and the console mode (lines 321-335, 621-647).  A GUI   *)
(* that reaches mainloop goes on as Spec describes.                        *)
(***************************************************************************)
sessionVars ==
    << stop_event, v, status, btn_text, listening, pressed, afterq, startIgnored,
       orphans >>

InitLoad ==
    /\ KEYBOARD_AVAILABLE \in BOOLEAN
    /\ scr \in ScreenChoices
    /\ pos \in PosChoices
    /\ pin = NoCall
    /\ pout = NoCall
    /\ GUI_AVAILABLE = FALSE
    /\ tk = FALSE
    /\ lpc = "import_gui"
    /\ NoSession

\* What the try statement of lines 326-333 can meet: both imports work,
\* "import tkinter as tk" raises, or only "from tkinter import ttk" raises.
ImportChoices == { "ok", "no_tkinter", "no_ttk" }

\* Lines 321-333: the import of tkinter; the name tk is bound once line 327
\* has run, GUI_AVAILABLE is set once line 329 is reached.
ImportGui ==
    /\ lpc = "import_gui"
    /\ \E o \in ImportChoices :
         /\ tk' = (o # "no_tkinter")
         /\ GUI_AVAILABLE' = (o = "ok")
    /\ lpc' = "class_def"
    /\ UNCHANGED << KEYBOARD_AVAILABLE, scr, pin, pout, sessionVars, workerVars >>

\* Line 335: class MouseJugglerApp(tk.Tk) evaluates tk.Tk when the module
\* is loaded; with tk unbound that is a NameError nothing catches.
ClassDef ==
    /\ lpc = "class_def"
    /\ lpc' = IF tk THEN "main" ELSE "load_failed"
    /\ UNCHANGED << KEYBOARD_AVAILABLE, scr, pin, pout, GUI_AVAILABLE, tk,
                    sessionVars, workerVars >>

\* main (lines 634-645): the GUI when it is available and its construction
\* works (built), else run_console; the failure modelled is that of line
\* 344, before _app_instance is set.
Main ==
    /\ lpc = "main"
    /\ IF GUI_AVAILABLE
       THEN \E built \in BOOLEAN : lpc' = IF built THEN "mainloop" ELSE "run_console"
       ELSE lpc' = "run_console"
    /\ UNCHANGED << KEYBOARD_AVAILABLE, scr, pin, pout, GUI_AVAILABLE, tk,
                    sessionVars, workerVars >>

\* run_console (lines 621-626): a new signal, a listener, and movement_loop
\* called on the main thread with CFG_DEFAULT.
RunConsole ==
    /\ lpc = "run_console"
    /\ lpc' = "console"
    /\ stop_event' = FALSE
    /\ listening' = start_keyboard_listener(listening)
    /\ wpc' = "ml_loop"
    /\ cfg' = CfgInit
    /\ UNCHANGED << KEYBOARD_AVAILABLE, scr, pin, pout, GUI_AVAILABLE, tk, v, status,
                    btn_text, pressed, afterq, startIgnored, orphans, hm, pz, pos,
                    entry, didWork, hmh, slp >>

\* _on_press in console mode, lines 307-315: _app_instance is None, so
\* on_first_key is called at once; the signal is set and the listener ends.
OnPressConsole ==
    /\ lpc = "console"
    /\ pressed > 0
    /\ pressed' = pressed - 1
    /\ stop_event' = TRUE
    /\ hmh' = SignalHistory
    /\ UNCHANGED << fixed, v, status, btn_text, listening, afterq, startIgnored,
                    orphans, wpc, cfg, hm, pz, pos, entry, didWork, slp >>

\* Lines 627-630: Ctrl-C raises KeyboardInterrupt in movement_loop, which
\* run_console catches: the signal is set and the program ends.
Interrupt ==
    /\ lpc = "console"
    /\ WorkerAlive
    /\ lpc' = "ended"
    /\ wpc' = "crashed"
    /\ stop_event' = TRUE
    /\ slp' = NoSleep
    /\ hmh' = [hmh EXCEPT !.ended = "raised"]
    /\ UNCHANGED << KEYBOARD_AVAILABLE, scr, pin, pout, GUI_AVAILABLE, tk, v, status,
                    btn_text, listening, pressed, afterq, startIgnored, orphans, cfg,
                    hm, pz, pos, entry, didWork >>

\* Line 631: movement_loop has returned.
ConsoleEnd ==
    /\ lpc = "console"
    /\ wpc = "stopped"
    /\ lpc' = "ended"
    /\ UNCHANGED << KEYBOARD_AVAILABLE, scr, pin, pout, GUI_AVAILABLE, tk,
                    sessionVars, workerVars >>

NextLoad ==
    \/ ImportGui
    \/ ClassDef
    \/ Main
    \/ RunConsole
    \/ Worker
    \/ OnPressTest
    \/ OnPressConsole
    \/ Interrupt
    \/ ConsoleEnd

SpecLoad == InitLoad /\ [][NextLoad]_vars

(***************************************************************************)
(* The destination computation of movement_loop on its own (lines 217-233, *)
(* 260-264): every screen up to MaxSide a side, every pointer position on  *)
(* it, every displacement sample up to MaxDisp.                            *)
(***************************************************************************)
InitDest ==
    /\ KEYBOARD_AVAILABLE = FALSE
    /\ scr \in (1 .. MaxSide) \X (1 .. MaxSide)
    /\ pos \in (0 .. MaxSide - 1) \X (0 .. MaxSide - 1)
    /\ pos[1] < scr[1]
    /\ pos[2] < scr[2]
    /\ pin = [kind |-> "destination"]
    /\ pout = NoCall
    /\ Constructed

PureFrame ==
    UNCHANGED << KEYBOARD_AVAILABLE, scr, pos, stop_event, v, status, btn_text,
                 listening, pressed, afterq, wpc, cfg, hm, pz, entry, didWork, hmh,
                 slp, startIgnored, orphans, GUI_AVAILABLE, tk, lpc, pin >>

\* Lines 220-233: the destination of a travel.
TravelDest ==
    /\ pin.kind = "destination"
    /\ \E kind \in { "normal", "small", "large" }, nx \in 1 .. MaxDisp,
          ny \in 1 .. MaxDisp, sx \in Signs, sy \in Signs :
         pout' = [kind |-> "travel",
                  dest |-> ClampDest(scr[1], scr[2], pos[1], pos[2],
                                     Displacement(kind, nx, sx),
                                     Displacement(kind, ny, sy))]
    /\ PureFrame

\* Lines 260-264: the destination of a micro-movement.
MicroDest ==
    /\ pin.kind = "destination"
    /\ \E nx \in MicroDraws, ny \in MicroDraws, sx \in Signs, sy \in Signs :
         pout' = [kind |-> "micro",
                  dest |-> ClampDest(scr[1], scr[2], pos[1], pos[2], nx * sx, ny * sy)]
    /\ PureFrame

NextDest ==
    \/ TravelDest
    \/ MicroDest

SpecDest == InitDest /\ [][NextDest]_vars

(***************************************************************************)
(* natural_trajectory on its own (lines 75-98): every pair of end points   *)
(* in 0 .. MaxCoord, the step counts 2 .. MaxSteps (np.linspace(0, 1, 1)   *)
(* is the single parameter 0), the curvature and noise samples below.      *)
(***************************************************************************)
\* np.random.normal(0, 0.5) samples of one point, in tenths of a pixel
PointNoise == { << 0, 0 >>, << -6, 6 >>, << 6, -6 >> }

\* the two curvature samples over dist, in tenths
CurvatureDraws == { << 0, 0 >>, << -3, 3 >> }

InitTraj ==
    /\ KEYBOARD_AVAILABLE = FALSE
    /\ scr \in ScreenChoices
    /\ pos \in PosChoices
    /\ pin \in [kind : { "natural_trajectory" },
                origin : (0 .. MaxCoord) \X (0 .. MaxCoord),
                destination : (0 .. MaxCoord) \X (0 .. MaxCoord),
                steps : 2 .. MaxSteps,
                cv : CurvatureDraws,
                first : PointNoise, mid : { << 0, 0 >> }, last : PointNoise]
    /\ pout = NoCall
    /\ Constructed

\* natural_trajectory(origin, destination, steps)
Trajectory ==
    /\ pin.kind = "natural_trajectory"
    /\ pout = NoCall
    /\ pout' = [kind |-> "trajectory",
                point_list |->
                    natural_trajectory(pin.origin, pin.destination, pin.steps,
                                       pin.cv[1], pin.cv[2],
                                       [k \in 1 .. pin.steps |->
                                           NoiseAt(pin, k, pin.steps)])]
    /\ PureFrame

NextTraj ==
    \/ Trajectory

SpecTraj == InitTraj /\ [][NextTraj]_vars

(***************************************************************************)
(* The step count of human_move on its own (lines 103-114): travels from   *)
(* (0, 0) to two destinations, the step ranges and every jitter value.     *)
(***************************************************************************)
\* steps_range values: degenerate ranges and ranges with min < max
StepRangeChoices == { << 10, 10 >>, << 1, 1 >>, << 10, 20 >>, << 20, 50 >> }

\* destinations at distance 0, 1, 5, 100, 250, 499, 500 (twice), 501 and 600
DestChoices ==
    { << 0, 0 >>, << 1, 0 >>, << 3, 4 >>, << 100, 0 >>, << 0, 250 >>, << 499, 0 >>,
      << 500, 0 >>, << 300, 400 >>, << 501, 0 >>, << 0, 600 >> }

\* |destination - origin|^2
SqDist(origin, destination) ==
    (destination[1] - origin[1]) * (destination[1] - origin[1])
    + (destination[2] - origin[2]) * (destination[2] - origin[2])

InitSteps ==
    /\ KEYBOARD_AVAILABLE = FALSE
    /\ scr \in ScreenChoices
    /\ pos \in PosChoices
    /\ pin \in [kind : { "human_move" }, origin : { << 0, 0 >> },
                near : DestChoices, far : DestChoices,
                steps_range : StepRangeChoices, jitter : JitterMin .. JitterMax]
    /\ pout = NoCall
    /\ Constructed

\* Lines 107-111 for the two destinations.
AdaptiveSteps ==
    /\ pin.kind = "human_move"
    /\ pout' = [kind |-> "steps",
                near |-> adaptive_steps(pin.origin, pin.near, pin.steps_range,
                                        pin.jitter),
                far  |-> adaptive_steps(pin.origin, pin.far, pin.steps_range,
                                        pin.jitter)]
    /\ PureFrame

\* Lines 107-114: the trajectory of the travel to the first destination.
TravelPoints ==
    /\ pin.kind = "human_move"
    /\ SqDist(pin.origin, pin.near) <= MaxReach * MaxReach
    /\ \E d \in Draws :
         LET n == adaptive_steps(pin.origin, pin.near, pin.steps_range, pin.jitter)
         IN  pout' = [kind |-> "points",
                      point_list |->
                          natural_trajectory(pin.origin, pin.near, n, d.cv[1], d.cv[2],
                                             [k \in 1 .. n |-> NoiseAt(d, k, n)])]
    /\ PureFrame

NextSteps ==
    \/ AdaptiveSteps
    \/ TravelPoints

SpecSteps == InitSteps /\ [][NextSteps]_vars

(***************************************************************************)
(* pairwise on its own (lines 29-35): every sequence of up to MaxLen items *)
(* out of three.                                                           *)
(***************************************************************************)
Items == { 1, 2, 3 }

\* the sequences of exactly n items
SeqsOfLen(n) == [1 .. n -> Items]

InitPairwise ==
    /\ KEYBOARD_AVAILABLE = FALSE
    /\ scr \in ScreenChoices
    /\ pos \in PosChoices
    /\ \E n \in 0 .. MaxLen : \E q \in SeqsOfLen(n) :
         pin = [kind |-> "pairwise", iterable |-> q]
    /\ pout = NoCall
    /\ Constructed

\* list(pairwise(iterable))
Pairwise ==
    /\ pin.kind = "pairwise"
    /\ pout = NoCall
    /\ pout' = [kind |-> "pairs", pairs |-> pairwise(pin.iterable)]
    /\ PureFrame

NextPairwise ==
    \/ Pairwise

SpecPairwise == InitPairwise /\ [][NextPairwise]_vars

(***************************************************************************)
(* The easing functions on their own (lines 37-51): every pair of inputs   *)
(* a / d <= b / d in [0, 1] with d up to MaxDen.                           *)
(***************************************************************************)
InitEase ==
    /\ KEYBOARD_AVAILABLE = FALSE
    /\ scr \in ScreenChoices
    /\ pos \in PosChoices
    /\ \E d \in 1 .. MaxDen : \E a \in 0 .. d : \E b \in a .. d :
         pin = [kind |-> "ease", a |-> a, b |-> b, d |-> d]
    /\ pout = NoCall
    /\ Constructed

\* ease_in_out_cubic at both inputs; unit is d^3, the value of 1.
EaseCubic ==
    /\ pin.kind = "ease"
    /\ pout = NoCall
    /\ pout' = [kind |-> "cubic",
                fa |-> ease_in_out_cubic(pin.a, pin.d),
                fb |-> ease_in_out_cubic(pin.b, pin.d),
                unit |-> pin.d * pin.d * pin.d]
    /\ PureFrame

\* ease_in_out_quartic at both inputs; unit is d^4, the value of 1.
EaseQuartic ==
    /\ pin.kind = "ease"
    /\ pout = NoCall
    /\ pout' = [kind |-> "quartic",
                fa |-> ease_in_out_quartic(pin.a, pin.d),
                fb |-> ease_in_out_quartic(pin.b, pin.d),
                unit |-> pin.d * pin.d * pin.d * pin.d]
    /\ PureFrame

NextEase ==
    \/ EaseCubic
    \/ EaseQuartic

SpecEase == InitEase /\ [][NextEase]_vars

(***************************************************************************)
(* Properties.                                                             *)
(***************************************************************************)
\* C1: a worker whose first test of the loop condition finds the signal set
\* performs zero travels: it has called no human_move, issued no pointer move
\* and slept no pause, and it is out of movement_loop.
C1_SetAtEntryNoTravel ==
    entry = "set" => wpc = "stopped" /\ ~didWork /\ hm = NoFrame /\ pz = NoPause

\* a worker has found the signal set at its first test and has returned
C1_Witness == entry = "set" /\ wpc = "stopped" /\ stop_event

\* C2: in the scheduler a cancellation check precedes every sleep of a sliced
\* wait, the sub-slice remainder included: once the signal is set no slice
\* and no remainder sleep is started.
C2_NoSleepStartsOnceSet ==
    [][~(stop_event /\ wpc' # wpc /\ wpc' \in { "hm_slice_sleep", "hm_rem_sleep" })]_vars

\* C3: once the signal has become set while human_move waits between two
\* points, the call issues no pointer move any more (no remaining point, no
\* final destination move), the pointer stays where it is and the call does
\* not end by an exception.
C3_CancelledInWaitNoMoreMoves ==
    [][hmh.cancelledInWait =>
          /\ hmh'.moves <= hmh.moves
          /\ pos' = pos
          /\ wpc' \notin { "hm_move", "hm_final_move", "crashed" }]_vars

\* human_move is about to return after a signal set in a wait, with points
\* of the trajectory never issued
C3_Witness ==
    /\ wpc = "hm_return"
    /\ hmh.cancelledInWait
    /\ hmh.moves < Len(hm.point_list) - 1

\* C4: a human_move call that has ended with the signal never set during it
\* has issued the destination as its last pointer move.
C4_EndsAtDestination ==
    (/\ wpc = "hm_return" \/ (wpc = "crashed" /\ hmh.ended = "raised")
     /\ ~hmh.setSeen)
    => (hmh.moves > 0 /\ hmh.last = hm.destination)

\* C5 as stated: for every screen, position and displacement the destination
\* of a travel and of a micro-movement lies in 1 .. width-2, 1 .. height-2.
C5_DestInsideAnyScreen ==
    pout.kind \in { "travel", "micro" } =>
        /\ 1 <= pout.dest[1] /\ pout.dest[1] <= scr[1] - 2
        /\ 1 <= pout.dest[2] /\ pout.dest[2] <= scr[2] - 2

\* C5 amended: on every screen at least 3 pixels wide and 3 pixels high, for
\* every position and displacement, the destination of a travel and of a
\* micro-movement lies in 1 .. width-2, 1 .. height-2.
C5_DestInsideScreen ==
    (pout.kind \in { "travel", "micro" } /\ scr[1] >= 3 /\ scr[2] >= 3) =>
        /\ 1 <= pout.dest[1] /\ pout.dest[1] <= scr[1] - 2
        /\ 1 <= pout.dest[2] /\ pout.dest[2] <= scr[2] - 2

\* a micro-movement from the last column of a 4-pixel-wide screen, brought
\* back to column width-2
C5_Witness ==
    /\ pout.kind = "micro"
    /\ scr[1] = 4 /\ scr[2] >= 3
    /\ pos[1] = scr[1] - 1
    /\ pout.dest[1] = scr[1] - 2

\* C6: a start call that finds the worker alive changes nothing: the signal,
\* the listeners and their pending callbacks, the worker and its
\* configuration, the pointer, the status and the button keep their values.
C6_StartWhileAliveNoOp ==
    [][(WorkerAlive /\ Start) =>
          UNCHANGED << stop_event, listening, pressed, afterq, wpc, cfg, hm, pz, pos,
                       entry, status, btn_text, v >>]_vars

\* start has just been called on a worker still alive after a stop: the
\* signal stays set, the status stays "Detenido"
C6_Witness ==
    startIgnored /\ WorkerAlive /\ stop_event /\ status = "Detenido"

\* A configuration with every range low <= high and every value positive.
ValidCfg(c) ==
    /\ \A f \in { "dx", "dy", "pause", "steps", "vel" } :
         c[f][1] <= c[f][2] /\ c[f][1] > 0

\* C7: no worker is launched with a configuration in which a range has
\* low > high or a value is not positive.
C7_NoLaunchOnInvalidCfg == wpc # "none" => ValidCfg(cfg)

\* C8: a pointer-move call that fails never ends the travel or the loop: the
\* worker is never ended by an exception out of a pointer move.
C8_MoveFailureNotFatal == ~(wpc = "crashed" /\ hmh.ended = "raised")

\* C9 as stated: no single sleep of the worker is longer than 100 ms.
C9_NoSleepOver100ms == wpc \in SleepPcs => slp.num <= 100 * slp.den

\* C9 amended: no single sleep of the worker is longer than one second, and
\* no single sleep of the scheduler longer than one 50 ms slice.
C9_SleepsBounded ==
    wpc \in SleepPcs =>
        /\ slp.num <= PauseSliceMs * slp.den
        /\ wpc \in HmSleepPcs => slp.num <= SliceMs * slp.den

\* the worker sleeps the sub-second remainder of a pause longer than one
\* second, after its one-second slices
C9_Witness ==
    /\ wpc = "p_remsleep"
    /\ pz.total > PauseSliceMs
    /\ pz.k = 0
    /\ slp.num > 0

\* C10: for end points at distance >= 1 and every step count the trajectory
\* starts at the origin and ends at the destination.
C10_EndpointsExact ==
    (pout.kind = "trajectory" /\ pin.origin # pin.destination) =>
        /\ pout.point_list[1] = pin.origin
        /\ pout.point_list[Len(pout.point_list)] = pin.destination

\* C11: a human_move call whose origin equals its destination has a
\* trajectory of exactly one point and a delay list with a non-zero
\* denominator; it never reaches the intermediate moves or a per-step sleep,
\* issues no move but the one to the destination, and returns having issued
\* exactly that one move when the signal was never set during the call.
C11_DegenerateTravel ==
    (hm.mode # "none" /\ hm.origin = hm.destination) =>
        /\ hm.point_list = << hm.origin >>
        /\ hm.den > 0
        /\ wpc \in { "hm_final", "hm_final_move", "hm_return", "crashed" }
        /\ slp = NoSleep
        /\ hmh.moves <= 1
        /\ hmh.moves = 1 => hmh.last = hm.destination
        /\ (wpc = "hm_return" /\ ~hmh.setSeen) => hmh.moves = 1

\* a travel whose clamped destination is the pointer's position returns
\* after its single move, the signal never set
C11_Witness ==
    /\ hm.mode = "travel"
    /\ hm.origin = hm.destination
    /\ wpc = "hm_return"
    /\ ~hmh.setSeen
    /\ hmh.moves = 1
    /\ pos = hm.destination

\* C12 as stated: with a degenerate step range (n, n) the trajectory of a
\* travel has exactly n points.
C12_DegenerateRangeExact ==
    (/\ pout.kind = "points"
     /\ pin.steps_range[1] = pin.steps_range[2]
     /\ pin.near # pin.origin)
    => Len(pout.point_list) = pin.steps_range[1]

\* C12 amended: with a degenerate step range (n, n) and a distance of at
\* least 1 the trajectory of a travel has exactly n + j points, j the
\* jitter sample of line 111, between 5 and 15.
C12_DegenerateRangePlusJitter ==
    (/\ pout.kind = "points"
     /\ pin.steps_range[1] = pin.steps_range[2]
     /\ pin.near # pin.origin)
    => /\ Len(pout.point_list) = pin.steps_range[1] + pin.jitter
       /\ Len(pout.point_list) >= pin.steps_range[1] + JitterMin
       /\ Len(pout.point_list) <= pin.steps_range[1] + JitterMax

\* origin (0, 0), destination (100, 0), step range (10, 10), jitter 15: 25 points
C12_Witness ==
    /\ pout.kind = "points"
    /\ pin.near = << 100, 0 >>
    /\ pin.steps_range = << 10, 10 >>
    /\ pin.jitter = JitterMax
    /\ Len(pout.point_list) = 25

\* C13: for one jitter value and a step range with min <= max the step
\* count does not decrease with the distance, is the same for all distances
\* of 500 or more, and lies between min + jitter and max + jitter, so
\* between min + 5 and max + 15.
C13_StepsMonotoneBounded ==
    (pout.kind = "steps" /\ pin.steps_range[1] <= pin.steps_range[2]) =>
        /\ SqDist(pin.origin, pin.near) <= SqDist(pin.origin, pin.far)
              => pout.near <= pout.far
        /\ (/\ SqDist(pin.origin, pin.near) >= RefDist * RefDist
            /\ SqDist(pin.origin, pin.far) >= RefDist * RefDist)
              => pout.near = pout.far
        /\ pout.near >= pin.steps_range[1] + pin.jitter
        /\ pout.near <= pin.steps_range[2] + pin.jitter
        /\ pout.near >= pin.steps_range[1] + JitterMin
        /\ pout.near <= pin.steps_range[2] + JitterMax

\* distances 499 and 600 under the range (20, 50): the count grows up to
\* distance 500 and has reached max + jitter there
C13_Witness ==
    /\ pout.kind = "steps"
    /\ pin.steps_range = << 20, 50 >>
    /\ pin.near = << 499, 0 >>
    /\ pin.far = << 0, 600 >>
    /\ pout.near < pout.far
    /\ pout.far = 50 + pin.jitter

\* The delays of a trajectory of more than one point are non-negative and
\* sum to the total travel time.
DelaysSumToTotal(f) ==
    /\ Len(f.num) = Len(f.point_list) - 1
    /\ \A k \in 1 .. Len(f.num) : f.num[k] >= 0
    /\ SumSeq(f.num) = f.total_time * f.den

\* C14 as stated: the delays are non-negative and sum to the total travel
\* time, and the time slept after each point whose move succeeded is exactly
\* that point's delay, so that the sleeps of a travel whose moves all succeed
\* total the same sum.
C14_SleepsEqualDelays ==
    (wpc \in { "hm_check", "hm_final" } /\ Len(hm.point_list) > 1) =>
        /\ DelaysSumToTotal(hm)
        /\ (hm.i >= 1 /\ hmh.outcome = "ok") => hmh.waited = hm.num[hm.i]

\* C14 amended: the delays are non-negative and sum to the total travel
\* time; the time slept after a point whose move succeeded is that point's
\* delay, or 1 ms when the delay is shorter, and after a point whose move
\* failed no time is slept.
C14_SleepsFollowDelays ==
    (wpc \in { "hm_check", "hm_final" } /\ Len(hm.point_list) > 1) =>
        /\ DelaysSumToTotal(hm)
        /\ hm.i >= 1 =>
              /\ hmh.outcome = "ok"
                    => hmh.waited = Max2(MinSleepMs * hm.den, hm.num[hm.i])
              /\ hmh.outcome = "caught" => hmh.waited = 0

\* the scheduler is past a wait longer than one slice, slept in a slice and
\* a remainder that total the delay
C14_Witness ==
    /\ wpc = "hm_check"
    /\ hm.i >= 1
    /\ hm.num[hm.i] > SliceMs * hm.den
    /\ hm.num[hm.i] % (SliceMs * hm.den) > 0
    /\ hmh.outcome = "ok"
    /\ hmh.waited = hm.num[hm.i]
    /\ hm.total_time > 0

\* C15: a pause that reaches the sleep of its remainder has slept all its
\* one-second slices, int(P) of them, and the remainder is P mod 1, so the
\* sleeps of a plain pause total P; in the micro-movement branch the first
\* part totals first_part and the two parts together total P; a pause
\* shorter than one second is one sleep of P.
C15_PauseTotalsExact ==
    wpc = "p_remsleep" =>
        /\ pz.k = 0
        /\ slp.num = pz.rem
        /\ pz.phase = "plain" =>
              /\ pz.slept = pz.total
              /\ pz.rem = pz.total % PauseSliceMs
              /\ pz.slept - pz.rem = (pz.total \div PauseSliceMs) * PauseSliceMs
        /\ pz.phase = "first" => pz.slept = pz.first
        /\ pz.phase = "rest" => pz.slept = pz.total
        /\ pz.total < PauseSliceMs => pz.phase = "plain" /\ slp.num = pz.total

\* the second part of a 2.5 s pause split around a micro-movement sleeps its
\* remainder: the two parts total 2.5 s
C15_Witness ==
    /\ wpc = "p_remsleep"
    /\ pz.phase = "rest"
    /\ pz.total = 2500
    /\ pz.first > PauseSliceMs
    /\ pz.slept = pz.total

\* C16: without the key-event capability no listener thread and no listener
\* callback ever exists, a start call that finds no live worker still
\* launches the worker with the signal clear, and the stop control still sets
\* the signal.
C16_NoKeyboardStillRuns ==
    [][~KEYBOARD_AVAILABLE =>
          /\ listening' = 0 /\ pressed' = 0 /\ afterq' = 0
          /\ (Start /\ ~WorkerAlive) =>
                (wpc' = "ml_loop" /\ ~stop_event' /\ status' = "En movimiento...")
          /\ Stop => stop_event']_vars

\* without the capability a session was launched, did a travel and has been
\* ended by the stop control
C16_Witness ==
    /\ ~KEYBOARD_AVAILABLE
    /\ wpc = "stopped"
    /\ entry = "clear"
    /\ didWork
    /\ stop_event
    /\ status = "Detenido"

\* C17: for end points at distance >= 1 and n requested points the
\* trajectory has exactly n points, each of two coordinates.
C17_TrajectoryHasNPoints ==
    (pout.kind = "trajectory" /\ pin.origin # pin.destination) =>
        /\ Len(pout.point_list) = pin.steps
        /\ \A k \in 1 .. Len(pout.point_list) : Len(pout.point_list[k]) = 2

\* a trajectory of three points between two distinct end points
C17_Witness ==
    /\ pout.kind = "trajectory"
    /\ pin.origin # pin.destination
    /\ pin.steps = 3
    /\ Len(pout.point_list) = 3

\* C18: pairwise of a sequence of n items is the n - 1 consecutive pairs
\* (s[i], s[i+1]) in order when n >= 2, and nothing when n <= 1.
C18_PairwiseConsecutive ==
    pout.kind = "pairs" =>
        LET q == pin.iterable
        IN  /\ Len(q) <= 1 => pout.pairs = << >>
            /\ Len(q) >= 2 =>
                  /\ Len(pout.pairs) = Len(q) - 1
                  /\ \A i \in 1 .. Len(q) - 1 : pout.pairs[i] = << q[i], q[i + 1] >>

\* pairwise([1, 2, 3, 1]) has given its three pairs
C18_Witness ==
    /\ pout.kind = "pairs"
    /\ pin.iterable = << 1, 2, 3, 1 >>
    /\ pout.pairs = << << 1, 2 >>, << 2, 3 >>, << 3, 1 >> >>

\* A step from a state whose worker is out of movement_loop.
EndedIsTerminal ==
    wpc \in { "stopped", "crashed" } =>
        /\ pos' = pos
        /\ \/ wpc' = wpc /\ slp' = slp /\ hmh' = hmh
           \/ wpc' = "ml_loop" /\ slp' = NoSleep /\ hmh' = NoHistory

\* C19: once the signal is set while a worker is alive, that worker
\* eventually is out of movement_loop; and a worker that is out of it never
\* moves the pointer or sleeps again: only a start call, which launches a new
\* worker, changes the worker's state.
C19_CancelledWorkerEnds ==
    /\ (stop_event /\ WorkerAlive) ~> ~WorkerAlive
    /\ [][EndedIsTerminal]_vars

\* a worker that found the signal clear at its first test, moved the
\* pointer and was then cancelled has left the loop
C19_Witness ==
    /\ wpc = "stopped"
    /\ stop_event
    /\ entry = "clear"
    /\ didWork
    /\ pos # << 2, 1 >>

\* C20: movement_loop ends only through cancellation: whenever the worker has
\* left the loop, by the test of line 216, the break of line 239 or an
\* exception, the signal is set.
C20_EndsOnlyByCancellation ==
    wpc \in { "stopped", "crashed" } => stop_event

\* C21: at most one worker thread executing movement_loop is alive: start
\* never replaces a worker that is still alive, so the thread self.worker
\* refers to is the only one that can issue pointer moves.
C21_AtMostOneWorker == orphans = 0

\* a second run is moving the pointer, started after the first one ended,
\* the listeners of both runs still waiting for a key
C21_Witness ==
    /\ listening = 2
    /\ WorkerAlive
    /\ didWork
    /\ ~stop_event
    /\ orphans = 0

\* A step of the signal as C22 allows it.
SignalLatches ==
    /\ (stop_event /\ WorkerAlive) => stop_event'
    /\ (stop_event /\ ~stop_event') => (~WorkerAlive /\ Start /\ wpc' = "ml_loop")
    /\ (WorkerAlive /\ wpc' # wpc) => stop_event' = stop_event
    /\ (stop_event /\ (Stop \/ OnPressSet)) =>
           /\ stop_event'
           /\ UNCHANGED << wpc, cfg, hm, pz, pos >>

\* C22: while a worker is alive the signal never goes from set to unset; it
\* is cleared only by a start call that finds no worker alive and launches
\* one; no step of the worker (movement_loop, human_move) changes it; and
\* stop or a key event on a set signal leaves it set and the worker as it is.
C22_SignalLatches == [][SignalLatches]_vars

\* the worker is still alive under a signal set both by a key event, whose
\* callback is pending, and by the stop control
C22_Witness ==
    /\ stop_event
    /\ WorkerAlive
    /\ afterq = 1
    /\ status = "Detenido"

\* A step of the configuration as C23 allows it.
SnapshotKept ==
    /\ cfg' # cfg => ~WorkerAlive /\ wpc' = "ml_loop"
    /\ (~WorkerAlive /\ wpc' = "ml_loop") => cfg' = v
    /\ (wpc = "ml_after_travel" /\ wpc' \in { "p_check", "p_remcheck" }) =>
           pz'.total \in Uniform(cfg.pause)
    /\ v' # v => UNCHANGED << cfg, hm, pz, wpc >>

\* C23: the ranges a worker uses are those start copied: a change of the
\* speed, pause or step settings leaves the configuration, the travel and the
\* pause of the running worker as they are; the configuration changes only
\* when start launches a worker, to the settings of that moment; and a pause
\* is drawn from the worker's copy.
C23_SnapshotKept == [][SnapshotKept]_vars

\* a worker runs on settings changed before it was started, while the
\* settings have been changed again under it: its pause is from its copy
C23_Witness ==
    /\ WorkerAlive
    /\ cfg.pause = << 500, 500 >>
    /\ cfg.vel = << 20, 20 >>
    /\ v.pause # cfg.pause
    /\ v.steps # cfg.steps
    /\ wpc = "p_remsleep"
    /\ pz.total = 500

\* A step of movement_loop from one of its tests of the signal, as C24
\* allows it.
ChecksHonoured ==
    stop_event =>
        /\ wpc \in { "ml_loop", "ml_micro_check" } => wpc' \notin HmPcs
        /\ wpc = "ml_after_travel" => wpc' \in { "ml_after_travel", "stopped" }
        /\ wpc = "p_check" => wpc' \in { "p_check", "p_remcheck" } /\ slp' = slp
        /\ wpc = "p_remcheck" => wpc' # "p_remsleep" /\ slp' = slp
        /\ wpc \in { "ml_loop", "ml_after_travel", "p_check", "p_remcheck",
                      "ml_micro_check" } => pos' = pos /\ hm' = hm

\* C24: when the signal is set at the test before a travel (line 216), before
\* the pause (line 239), before a one-second slice, before a remainder or
\* before the micro-movement (line 259), movement_loop starts no travel, no
\* sleep and no micro-movement there, in every kind of pause.
C24_ChecksHonoured == [][ChecksHonoured]_vars

\* cancelled in the first part of a pause with a slice still to sleep, the
\* worker is at the test before the micro-movement
C24_Witness ==
    /\ stop_event
    /\ wpc = "ml_micro_check"
    /\ pz.phase = "first"
    /\ pz.k > 0

\* A test of movement_loop that finds the signal set starts no human_move
\* call.
NoCallOnceSet ==
    (stop_event /\ wpc \in { "ml_loop", "ml_micro_check" }) => wpc' \notin HmPcs

\* C25: however a trigger that sets the signal interleaves with the worker,
\* the worker issues at most one pointer move under the set signal: the
\* human_move call running then issues at most one, and no call is started
\* afterwards.
C25_OneMoveAfterSet ==
    /\ [](hmh.afterSet <= 1)
    /\ [][NoCallOnceSet]_vars

\* the signal was set between the test of line 161 and the move after it:
\* that move went through and human_move is about to return
C25_Witness ==
    /\ hmh.afterSet = 1
    /\ hmh.outcome = "ok"
    /\ wpc = "hm_return"
    /\ stop_event

\* A step that calls on_first_key (schedules key_stop_handler) is the step
\* that takes the signal from unset to set.
CallbackByFirstKey == afterq' > afterq => ~stop_event /\ stop_event'

\* C26: on_first_key is invoked only by the key event that changes the
\* signal from unset to set, hence at most once between two clearings of the
\* signal: a key event on a signal already set invokes no callback.
C26_CallbackByFirstKey == [][CallbackByFirstKey]_vars

\* C27: while a worker is alive and the signal is unset, the control panel
\* does not look stopped: the button does not read "Iniciar" and the status
\* is neither "Detenido" nor "Detenido por teclado".
C27_NoStoppedLookWhileRunning ==
    (WorkerAlive /\ ~stop_event) =>
        /\ btn_text # "Iniciar"
        /\ status \notin { "Detenido", "Detenido por teclado" }

\* A start call that follows a stop call (the status still reads "Detenido")
\* leaves a worker alive under a clear signal.
StartAfterStopRuns ==
    (status = "Detenido" /\ Start) => (wpc' \notin DeadPcs /\ ~stop_event')

\* C28: after stop followed by start a worker is alive with the signal
\* clear, whether or not the worker of the stopped run had left its loop
\* when start was called.
C28_StartAfterStopRuns == [][StartAfterStopRuns]_vars

\* C29: when tkinter cannot be imported (GUI_AVAILABLE stays false), the
\* load of the module does not fail: the program gets to main and on to
\* run_console.
C29_ConsoleFallback ==
    (lpc # "import_gui" /\ ~GUI_AVAILABLE) => lpc # "load_failed"

\* C30 as stated: every human_move call, the one with a single-point
\* trajectory included, has one delay less than it has points.
C30_DelaysOneLessThanPoints ==
    hm.mode # "none" => Len(hm.num) = Len(hm.point_list) - 1

\* C30: a human_move call with two points or more has one delay less than it
\* has points; a call with a single-point trajectory has the one delay 0 of
\* line 156, which the empty execution loop never reads.
C30_DelaysMatchSegments ==
    hm.mode # "none" =>
        IF Len(hm.point_list) >= 2
        THEN Len(hm.num) = Len(hm.point_list) - 1
        ELSE hm.num = << 0 >> /\ wpc \notin { "hm_move" } \cup HmSleepPcs

\* a travel of several points is in the wait after its last point but one:
\* the last delay is in use
C30_Witness ==
    /\ hm.mode = "travel"
    /\ Len(hm.point_list) >= 3
    /\ hm.i = Len(hm.point_list) - 2
    /\ wpc = "hm_short_sleep"
    /\ slp.num = Max2(MinSleepMs * hm.den, hm.num[Len(hm.num)])

\* C31: ease_in_out_cubic and ease_in_out_quartic map 0 to 0 and 1 to 1,
\* stay within [0, 1] and are non-decreasing on [0, 1], the two sides of the
\* branch point 0.5 included: for inputs a <= b the value at a is at most
\* the value at b.
C31_EasingMonotone ==
    pout.kind \in { "cubic", "quartic" } =>
        /\ pin.a = 0 => pout.fa = 0
        /\ pin.b = pin.d => pout.fb = pout.unit
        /\ 0 <= pout.fa
        /\ pout.fa <= pout.fb
        /\ pout.fb <= pout.unit

\* the quartic easing has been applied on the two sides of 0.5, at 3/7 and
\* 4/7: the values grow across the branch point
C31_Witness ==
    /\ pout.kind = "quartic"
    /\ pin.d = 7
    /\ pin.a = 3
    /\ pin.b = 4
    /\ pout.fa < pout.fb
    /\ 2 * pout.fa < pout.unit
    /\ 2 * pout.fb > pout.unit

====
